---- MODULE Spec2Model ----
(***************************************************************************)
(* Model of the autoinsight vehicle evaluator:                             *)
(*   - evaluator/scraper.py  fetch_listings, the two-stage fetch           *)
(*     (warm-up, Stage 1 paging, Stage 2 detail collection);               *)
(*   - evaluator/ranking.py  rank_vehicles_with_llm.                       *)
(* Spec     is one run of fetch_listings.                                  *)
(* SpecRank is one call of rank_vehicles_with_llm.                         *)
(* SpecUrl  is one construction of a search URL, from the form or direct.  *)
(* SpecParse is one call of _stage2_parse_detail.                          *)
(* SpecCollect is one call of _stage2_collect_vehicles with any limit.     *)
(***************************************************************************)
EXTENDS Integers, Sequences, FiniteSets, TLC

\* ------------------------------------------------------------------ bounds
MaxPages == 3
MaxCards == 11
MaxFaults == 2
MaxVehicles == 12
MaxRespLen == 12
MaxTextLen == 2
MaxRows == 2
MaxStubs == 3

\* --------------------------------------------------------- program constants
MAX_RESULTS == 20
PAGE_DELAY == 10
DETAIL_DELAY == 3
TOP_N == 10
DEFAULT_MIN_YEAR == 2000
DEFAULT_MAX_PRICE == 50000000
NAME_MAX == 200
OPTIONS_MAX == 500
DETAILS_MAX == 3000
DESCRIPTION_MAX == 1500

\* datetime.date.today().year at the time of the call
CurrentYear == 2026

VARIABLES
    pc,             \* position of the run of fetch_listings
    filters,        \* the filter arguments of fetch_listings
    max_pages,      \* argument max_pages
    page,           \* loop variable of the Stage 1 for loop
    vehicle_links,  \* Stage 1 accumulator of stubs
    stage1_errors,  \* Stage 1 list of recorded page errors
    cards,          \* cards of the page being processed (TRUE: card has a link)
    ci,             \* index of the next card of the inner for loop
    s2i,            \* loop index i of _stage2_collect_vehicles
    results,        \* results list of _stage2_collect_vehicles
    returned,       \* the value fetch_listings returned
    raised,         \* the exception that left fetch_listings, "none" if none
    faults,         \* number of recoverable faults injected so far in the run
    trace,          \* requests and sleeps performed, in order
    limit,          \* argument limit of _stage2_collect_vehicles
    rk,             \* state of one call of rank_vehicles_with_llm
    ub,             \* state of one construction of a search URL
    pd              \* state of one call of _stage2_parse_detail

fetchVars == <<pc, filters, max_pages, page, vehicle_links, stage1_errors, cards,
               ci, s2i, results, returned, raised, faults, trace, limit>>
vars == <<pc, filters, max_pages, page, vehicle_links, stage1_errors, cards,
          ci, s2i, results, returned, raised, faults, trace, limit, rk, ub, pd>>

\* ------------------------------------------------------------------ values
None == [t |-> "none", v |-> 0]
IntV(n) == [t |-> "int", v |-> n]
StrV == [t |-> "str", v |-> 0]

Ev(e, a, b, o) == [ev |-> e, a |-> a, b |-> b, out |-> o]
Stub(p, i) == [url |-> <<p, i>>, name |-> "title"]

Min(a, b) == IF a < b THEN a ELSE b

\* A search-results page: c cards, of which the first k carry no detail link
\* (a card without a link counts as one fault of the run).
PageOf(c, k) == [i \in 1..c |-> i > k]

\* The filters a run is called with: bounds are None, an integer, or a value
\* that is not a number (a string), which the comparisons of
\* _make_search_url cannot order against 0.
FetchFilters ==
    { [make |-> "Toyota", min_year |-> IntV(2015), max_year |-> IntV(2020)],
      [make |-> "Toyota", min_year |-> StrV, max_year |-> None] }

\* _make_search_url: the comparison of a bound with 0 raises TypeError for a
\* string, which the function turns into RuntimeError.
MakeSearchUrlRaises(f) == f.min_year.t = "str" \/ f.max_year.t = "str"

HttpErrorStatuses == {403, 500}

StatusOut(s) == IF s = 403 THEN "http_403" ELSE "http_500"

\* Mutant: status 403 is handled like every other HTTP error.
IsFatalStatus_m(s) == FALSE

\* fetch_listings, except requests.HTTPError: status 403 is escalated.
IsFatalStatus(s) == s = 403

\* ---------------------------------------------------------------- warm-up
WarmUpExceptions == {"timeout", "connection_error", "request_exception", "other_exception"}
WarmUpResponses == {"ok", "http_error_status"}

\* The error fetch_listings raises for a warm-up exception.
WarmUpError(o) ==
    CASE o = "timeout" -> "RuntimeError: Timeout while connecting"
      [] o = "connection_error" -> "RuntimeError: Cannot connect"
      [] o = "request_exception" -> "RuntimeError: Error reaching"
      [] OTHER -> "Exception: warm-up request"

\* Mutant: only timeout and connection error abort the fetch.
WarmUpFatal_m(o) == o \in {"timeout", "connection_error"}

\* Which warm-up outcomes leave fetch_listings: every exception does (three
\* except clauses re-raise, anything else is not caught).
WarmUpFatal(o) == o \in WarmUpExceptions

WarmUp ==
    /\ pc = "warmup"
    /\ \E o \in WarmUpExceptions \cup WarmUpResponses :
        /\ trace' = Append(trace, Ev("home", 0, 0, o))
        /\ IF WarmUpFatal(o)
             THEN /\ pc' = "raised"
                  /\ raised' = WarmUpError(o)
             ELSE /\ pc' = "page_loop"
                  /\ raised' = raised
    /\ page' = 1
    /\ UNCHANGED <<filters, max_pages, vehicle_links, stage1_errors, cards, ci, s2i,
                   results, returned, faults, limit, rk, ub, pd>>

\* ---------------------------------------------------------------- Stage 1
\* for page in range(1, max_pages + 1): if len(vehicle_links) >= MAX_RESULTS: break
PageCapReached(links) == Len(links) >= MAX_RESULTS

\* Mutant: the card loop has no cap check.
CardCapReached_m(links) == FALSE

\* for card in cards: if len(vehicle_links) >= MAX_RESULTS: break
CardCapReached(links) == Len(links) >= MAX_RESULTS

\* Mutant: the delay follows every page that was processed.
PageDelayDue_m(p, mp, links) == TRUE

\* if page < max_pages and len(vehicle_links) < MAX_RESULTS: time.sleep(1)
PageDelayDue(p, mp, links) == p < mp /\ Len(links) < MAX_RESULTS

PageError(kind, p) == [kind |-> kind, page |-> p]

\* The loop body is entered for this page.
Stage1Enter == pc = "page_loop" /\ page <= max_pages /\ ~PageCapReached(vehicle_links)

\* The search URL was built and the request for this page is issued.
Stage1Request == Stage1Enter /\ ~MakeSearchUrlRaises(filters)

SearchEv(o) == Ev("search", page, Len(vehicle_links), o)

\* The for loop is exhausted, or the cap check at its head breaks.
Stage1LoopEnd ==
    /\ pc = "page_loop"
    /\ page > max_pages \/ PageCapReached(vehicle_links)
    /\ pc' = "links_check"
    /\ UNCHANGED <<filters, max_pages, page, vehicle_links, stage1_errors, cards, ci,
                   s2i, results, returned, raised, faults, trace, limit, rk, ub, pd>>

\* _make_search_url raises RuntimeError: no except clause of the first try
\* names it, so it leaves fetch_listings.
Stage1UrlError ==
    /\ Stage1Enter
    /\ MakeSearchUrlRaises(filters)
    /\ pc' = "raised"
    /\ raised' = "RuntimeError: Failed to build search URL"
    /\ UNCHANGED <<filters, max_pages, page, vehicle_links, stage1_errors, cards, ci,
                   s2i, results, returned, faults, trace, limit, rk, ub, pd>>

\* An except clause that records the error and continues with the next page.
Stage1Continue(kind, o) ==
    /\ Stage1Request
    /\ faults < MaxFaults
    /\ faults' = faults + 1
    /\ trace' = Append(trace, SearchEv(o))
    /\ stage1_errors' = Append(stage1_errors, PageError(kind, page))
    /\ page' = page + 1
    /\ UNCHANGED <<pc, filters, max_pages, vehicle_links, cards, ci, s2i, results,
                   returned, raised, limit, rk, ub, pd>>

Stage1Timeout == Stage1Continue("Timeout", "timeout")

Stage1ConnectionError == Stage1Continue("Connection error", "connection_error")

Stage1RequestException == Stage1Continue("Request error", "request_exception")

\* except requests.HTTPError: the error is recorded, then 403 raises.
Stage1HttpError ==
    /\ Stage1Request
    /\ \E s \in HttpErrorStatuses :
        /\ trace' = Append(trace, SearchEv(StatusOut(s)))
        /\ stage1_errors' = Append(stage1_errors, PageError(StatusOut(s), page))
        /\ IF IsFatalStatus(s)
             THEN /\ pc' = "raised"
                  /\ raised' = "RuntimeError: Access denied (403)"
                  /\ page' = page
                  /\ faults' = faults
             ELSE /\ faults < MaxFaults
                  /\ faults' = faults + 1
                  /\ pc' = pc
                  /\ raised' = raised
                  /\ page' = page + 1
    /\ UNCHANGED <<filters, max_pages, vehicle_links, cards, ci, s2i, results,
                   returned, limit, rk, ub, pd>>

\* The request raises an exception that is not a requests exception: no
\* except clause of the first try names it.
Stage1OtherException ==
    /\ Stage1Request
    /\ trace' = Append(trace, SearchEv("other_exception"))
    /\ pc' = "raised"
    /\ raised' = "Exception: search request"
    /\ UNCHANGED <<filters, max_pages, page, vehicle_links, stage1_errors, cards, ci,
                   s2i, results, returned, faults, limit, rk, ub, pd>>

\* The response is fine and parsing it raises: except Exception, continue.
Stage1ParseError == Stage1Continue("Error parsing", "ok_parse_error")

\* Mutant: a page without cards is skipped and paging goes on.
NoCardsAction_m == "continue"

\* What the loop does on a page without cards: "break" ends the paging.
NoCardsAction == "break"

\* The response is fine and holds no card.
Stage1NoCards ==
    /\ Stage1Request
    /\ trace' = Append(trace, SearchEv("ok_no_cards"))
    /\ IF NoCardsAction = "break"
         THEN pc' = "links_check" /\ page' = page
         ELSE pc' = pc /\ page' = page + 1
    /\ UNCHANGED <<filters, max_pages, vehicle_links, stage1_errors, cards, ci, s2i,
                   results, returned, raised, faults, limit, rk, ub, pd>>

\* The response is fine and holds c >= 1 cards.
Stage1Cards ==
    /\ Stage1Request
    /\ \E c \in {1, MaxCards} : \E k \in {0, 1} :
        /\ k = 1 => faults < MaxFaults
        /\ faults' = faults + k
        /\ cards' = PageOf(c, k)
    /\ ci' = 1
    /\ trace' = Append(trace, SearchEv("ok_cards"))
    /\ pc' = "cards"
    /\ UNCHANGED <<filters, max_pages, page, vehicle_links, stage1_errors, s2i,
                   results, returned, raised, limit, rk, ub, pd>>

\* One iteration of "for card in cards": _extract_link_from_card, append.
CardStep ==
    /\ pc = "cards"
    /\ ci <= Len(cards)
    /\ ~CardCapReached(vehicle_links)
    /\ vehicle_links' = IF cards[ci] THEN Append(vehicle_links, Stub(page, ci))
                                     ELSE vehicle_links
    /\ ci' = ci + 1
    /\ UNCHANGED <<pc, filters, max_pages, page, stage1_errors, cards, s2i, results,
                   returned, raised, faults, trace, limit, rk, ub, pd>>

\* The card loop ends (exhausted or cap reached): delay, next page.
CardsDone ==
    /\ pc = "cards"
    /\ ci > Len(cards) \/ CardCapReached(vehicle_links)
    /\ trace' = IF PageDelayDue(page, max_pages, vehicle_links)
                  THEN Append(trace, Ev("sleep", PAGE_DELAY, 0, "page"))
                  ELSE trace
    /\ page' = page + 1
    /\ pc' = "page_loop"
    /\ UNCHANGED <<filters, max_pages, vehicle_links, stage1_errors, cards, ci, s2i,
                   results, returned, raised, faults, limit, rk, ub, pd>>

\* ------------------------------------------------------- after Stage 1
\* Mutant: the early return is missing.
NoStubs_m(links) == FALSE

\* if not vehicle_links: return []
NoStubs(links) == Len(links) = 0

\* Stage 1 gave no stub: fetch_listings returns [] without calling Stage 2.
ReturnEmpty ==
    /\ pc = "links_check"
    /\ NoStubs(vehicle_links)
    /\ pc' = "returned"
    /\ returned' = <<>>
    /\ UNCHANGED <<filters, max_pages, page, vehicle_links, stage1_errors, cards, ci,
                   s2i, results, raised, faults, trace, limit, rk, ub, pd>>

\* The limit of _stage2_collect_vehicles: its default, and what
\* fetch_listings passes.
Stage2DefaultLimit == 2
Stage2Limit == MAX_RESULTS

\* _stage2_collect_vehicles(vehicle_links, limit=MAX_RESULTS) is called.
Stage2Start ==
    /\ pc = "links_check"
    /\ ~NoStubs(vehicle_links)
    /\ pc' = "stage2"
    /\ s2i' = 0
    /\ results' = <<>>
    /\ limit' = Stage2Limit
    /\ UNCHANGED <<filters, max_pages, page, vehicle_links, stage1_errors, cards, ci,
                   returned, raised, faults, trace, rk, ub, pd>>

\* ---------------------------------------------------------------- Stage 2
\* What a detail request gives: a page with heading and table, or one of the
\* exceptions _stage2_fetch_detail_page catches (it then returns None).
DetailFailures == {"timeout", "http_error", "request_exception", "other_exception"}
DetailOutcomes == {"full"} \cup DetailFailures

\* _stage2_fetch_detail_page: the soup, or None.
FetchDetailPage(o) == IF o \in DetailFailures THEN "none" ELSE o

\* _stage2_parse_detail, as far as the fetch needs it: the record of a missing
\* page has only url; a page gives its heading as name and the table fields.
ParseDetail(soup, url) ==
    [url |-> url,
     name |-> IF soup = "none" THEN "" ELSE "h1",
     table |-> soup = "full"]

\* if not vehicle.get('name') and name_fallback: vehicle['name'] = name_fallback
WithNameFallback(vehicle, entry) ==
    IF vehicle.name = "" /\ entry.name # ""
      THEN [vehicle EXCEPT !.name = entry.name]
      ELSE vehicle

\* if i < len(vehicle_links) - 1: time.sleep(0.3)
DetailDelayDue(i, links) == i < Len(links) - 1

\* One iteration of the loop of _stage2_collect_vehicles (i = s2i, 0-based).
\* Its except clause is not reached: both callees catch every exception.
Stage2Step ==
    /\ pc = "stage2"
    /\ s2i < Len(vehicle_links)
    /\ s2i < limit
    /\ LET entry == vehicle_links[s2i + 1]
       IN  IF entry.url = <<>>
             THEN UNCHANGED <<results, trace, faults>>
             ELSE \E o \in DetailOutcomes :
                    LET soup == FetchDetailPage(o)
                        vehicle == WithNameFallback(ParseDetail(soup, entry.url), entry)
                        req == Ev("detail", entry.url[1], entry.url[2], soup)
                    IN  /\ o # "full" => faults < MaxFaults
                        /\ faults' = IF o = "full" THEN faults ELSE faults + 1
                        /\ results' = Append(results, vehicle)
                        /\ trace' = IF DetailDelayDue(s2i, vehicle_links)
                                      THEN trace \o <<req, Ev("sleep", DETAIL_DELAY, 0, "detail")>>
                                      ELSE Append(trace, req)
    /\ s2i' = s2i + 1
    /\ UNCHANGED <<pc, filters, max_pages, page, vehicle_links, stage1_errors, cards,
                   ci, returned, raised, limit, rk, ub, pd>>

\* The loop ends (list exhausted or i >= limit): results are returned, and
\* fetch_listings returns them.
Stage2Done ==
    /\ pc = "stage2"
    /\ s2i >= Len(vehicle_links) \/ s2i >= limit
    /\ pc' = "returned"
    /\ returned' = results
    /\ UNCHANGED <<filters, max_pages, page, vehicle_links, stage1_errors, cards, ci,
                   s2i, results, raised, faults, trace, limit, rk, ub, pd>>

\* The ranking is not running.
UrlIdle == [pc |-> "idle"]
ParseIdle == [pc |-> "idle"]

RankIdle ==
    [pc |-> "idle", vehicles |-> <<>>, ranked_indices |-> <<>>, valid_indices |-> <<>>,
     used_indices |-> {}, result |-> <<>>, llm_calls |-> 0, iterations |-> 0,
     failure |-> "none"]

Init ==
    /\ pc = "warmup"
    /\ filters \in FetchFilters
    /\ max_pages \in 1..MaxPages
    /\ page = 0
    /\ vehicle_links = <<>>
    /\ stage1_errors = <<>>
    /\ cards = <<>>
    /\ ci = 0
    /\ s2i = 0
    /\ results = <<>>
    /\ returned = <<>>
    /\ raised = "none"
    /\ faults = 0
    /\ trace = <<>>
    /\ limit = 0
    /\ rk = RankIdle
    /\ ub = UrlIdle
    /\ pd = ParseIdle

Next ==
    \/ WarmUp
    \/ Stage1LoopEnd
    \/ Stage1UrlError
    \/ Stage1Timeout
    \/ Stage1ConnectionError
    \/ Stage1RequestException
    \/ Stage1HttpError
    \/ Stage1OtherException
    \/ Stage1ParseError
    \/ Stage1NoCards
    \/ Stage1Cards
    \/ CardStep
    \/ CardsDone
    \/ ReturnEmpty
    \/ Stage2Start
    \/ Stage2Step
    \/ Stage2Done

Spec == Init /\ [][Next]_vars
\* ======================================================================
\* ranking.py: rank_vehicles_with_llm
\* ======================================================================
\* The input list: n vehicles, told apart by their position in the input.
Vehicles(n) == [i \in 1..n |-> [name |-> i]]

\* vehicles[i], with the 0-based index of the code.
At(vs, i) == vs[i + 1]

\* The values a JSON array can hold. A float is given in tenths, so that
\* int() has something to truncate.
IntItem(k) == [t |-> "int", v |-> k]
FloatItem(tenths) == [t |-> "float", v |-> tenths]
BoolItem(b) == [t |-> "bool", v |-> IF b THEN 1 ELSE 0]
OtherItem(kind) == [t |-> kind, v |-> 0]

RespItems ==
    {IntItem(k) : k \in {0 - 1, 0, 1, MaxVehicles - 1, MaxVehicles}}
      \cup {FloatItem(t) : t \in {0 - 5, 5, 15}}
      \cup {BoolItem(TRUE)}
      \cup {OtherItem(k) : k \in {"str", "null", "nan", "inf"}}

\* The index lists the LLM may answer with: at most one arbitrary item,
\* followed by len indices counting up from s modulo m (m = 1 repeats one
\* index, m = 3 cycles through three, a large m gives distinct indices and
\* runs out of range).
Ramp(s, len, m) == [i \in 1..len |-> IntItem((s + i - 1) % m)]
Ramps == {Ramp(s, len, m) : s \in {0, 2}, len \in 0..MaxRespLen, m \in {1, 3, MaxVehicles + 1}}
Responses == Ramps \cup {<<x>> \o r : x \in RespItems, r \in Ramps}

\* isinstance(x, (int, float)): bool is a subclass of int; nan and inf are floats.
IsNumber(x) == x.t \in {"int", "float", "bool", "nan", "inf"}

\* int(x) raises ValueError for nan and OverflowError for inf.
IntRaises(x) == x.t \in {"nan", "inf"}

\* int(x) of a number: truncation toward zero.
IntOf(x) ==
    IF x.t = "float"
      THEN IF x.v >= 0 THEN x.v \div 10 ELSE 0 - ((0 - x.v) \div 10)
      ELSE x.v

\* The condition of the list comprehension.
IsValidIndex(x, n) == IsNumber(x) /\ 0 <= IntOf(x) /\ IntOf(x) < n

\* The list comprehension raises when int() is applied to nan or inf.
FilterRaises(items) == \E i \in DOMAIN items : IntRaises(items[i])

\* The first item int() raises for decides the exception: ValueError for
\* nan, OverflowError for inf.
FirstRaise(items) ==
    LET i == CHOOSE k \in DOMAIN items :
                 IntRaises(items[k]) /\ \A j \in 1..(k - 1) : ~IntRaises(items[j])
    IN  IF items[i].t = "nan" THEN "int_nan" ELSE "int_inf"

RECURSIVE FilterValid(_, _)
FilterValid(items, n) ==
    IF items = <<>> THEN <<>>
    ELSE LET rest == FilterValid(Tail(items), n)
         IN  IF IsValidIndex(Head(items), n) THEN <<IntOf(Head(items))>> \o rest ELSE rest

Take(seq, k) == SubSeq(seq, 1, Min(k, Len(seq)))

\* valid_indices = [int(x) for x in ranked_indices if ...][:10]
ValidIndices(items, n) == Take(FilterValid(items, n), TOP_N)

\* used_indices = set(valid_indices)
UsedIndices(valid) == {valid[i] : i \in DOMAIN valid}

\* [vehicles[i] for i in valid_indices[:10]]
Pick(vs, valid) == [i \in 1..Min(TOP_N, Len(valid)) |-> At(vs, valid[i])]

\* Mutant: the list is returned as is only below 10 vehicles.
FewVehicles_m(vs) == Len(vs) < TOP_N

\* if len(vehicles) <= 10: return vehicles
FewVehicles(vs) == Len(vs) <= TOP_N

RankDone(r, called) ==
    rk' = [rk EXCEPT !.pc = "done", !.result = r, !.llm_calls = rk.llm_calls + called]

\* The exception each failure of the try block raises.
FailureException(why) ==
    CASE why = "no_client" -> "ValueError"
      [] why = "client_error" -> "APIConnectionError"
      [] why = "invalid_json" -> "JSONDecodeError"
      [] why = "not_an_object" -> "AttributeError"
      [] why = "int_nan" -> "ValueError"
      [] OTHER -> "OverflowError"

\* The classes derived from Exception among those the try block can raise.
ExceptionClasses ==
    {"ValueError", "JSONDecodeError", "APIConnectionError", "AttributeError",
     "OverflowError"}

\* Mutant: the clause "except Exception" is missing.
RankCaught_m(exc) == exc \in {"JSONDecodeError", "ValueError"}

\* except (json.JSONDecodeError, ValueError) ... except Exception: the second
\* clause catches whatever the first does not.
RankCaught(exc) == exc \in {"JSONDecodeError", "ValueError"} \/ exc \in ExceptionClasses

\* A failure inside the try block: a caught one returns vehicles[:10], an
\* uncaught one leaves the function.
RankFail(why, called) ==
    IF RankCaught(FailureException(why))
      THEN rk' = [rk EXCEPT !.pc = "done", !.result = Take(rk.vehicles, TOP_N),
                            !.llm_calls = rk.llm_calls + called, !.failure = why]
      ELSE rk' = [rk EXCEPT !.pc = "raised", !.llm_calls = rk.llm_calls + called,
                            !.failure = why]

\* if not vehicles: return []
RankEmpty ==
    /\ rk.pc = "start"
    /\ rk.vehicles = <<>>
    /\ RankDone(<<>>, 0)
    /\ UNCHANGED <<fetchVars, ub, pd>>

\* if len(vehicles) <= 10: return vehicles
RankFew ==
    /\ rk.pc = "start"
    /\ rk.vehicles # <<>>
    /\ FewVehicles(rk.vehicles)
    /\ RankDone(rk.vehicles, 0)
    /\ UNCHANGED <<fetchVars, ub, pd>>

\* More than 10 vehicles: the try block is entered.
RankTry == rk.pc = "start" /\ rk.vehicles # <<>> /\ ~FewVehicles(rk.vehicles)

\* _get_client raises (groq missing, GROQ_API_KEY not set): except Exception,
\* return vehicles[:10]. No request was made.
RankNoClient ==
    /\ RankTry
    /\ RankFail("no_client", 0)
    /\ UNCHANGED <<fetchVars, ub, pd>>

\* The request is made and fails, or its answer is not JSON, or the JSON is
\* not an object: one of the except clauses returns vehicles[:10].
RankCallFails ==
    /\ RankTry
    /\ \E why \in {"client_error", "invalid_json", "not_an_object"} :
        RankFail(why, 1)
    /\ UNCHANGED <<fetchVars, ub, pd>>

\* The answer is a JSON object. ranked_indices is its value under that key
\* when it is a list; a missing key, null, or any value that is not a list
\* gives [].
RankAnswer ==
    /\ RankTry
    /\ \E items \in Responses :
        rk' = [rk EXCEPT !.pc = "filter", !.ranked_indices = items,
                         !.llm_calls = rk.llm_calls + 1]
    /\ UNCHANGED <<fetchVars, ub, pd>>

\* The list comprehension raises: ValueError or OverflowError, both caught,
\* return vehicles[:10].
RankFilterRaises ==
    /\ rk.pc = "filter"
    /\ FilterRaises(rk.ranked_indices)
    /\ RankFail(FirstRaise(rk.ranked_indices), 0)
    /\ UNCHANGED <<fetchVars, ub, pd>>

\* valid_indices and used_indices are computed.
RankFilter ==
    /\ rk.pc = "filter"
    /\ ~FilterRaises(rk.ranked_indices)
    /\ LET valid == ValidIndices(rk.ranked_indices, Len(rk.vehicles))
       IN  rk' = [rk EXCEPT !.pc = "fill", !.valid_indices = valid,
                            !.used_indices = UsedIndices(valid)]
    /\ UNCHANGED <<fetchVars, ub, pd>>

\* while len(valid_indices) < 10 and len(valid_indices) < len(vehicles)
FillNeeded(valid, vs) == Len(valid) < TOP_N /\ Len(valid) < Len(vs)

\* Mutant: the for loop takes the last unused index.
FirstUnused_m(unused) == CHOOSE x \in unused : \A y \in unused : x >= y

\* for i in range(len(vehicles)): if i not in used_indices: ... break
FirstUnused(unused) == CHOOSE x \in unused : \A y \in unused : x <= y

\* Mutant: the for loop finds no index to append.
UnusedIndices_m(n, used) == {}

\* The indices i of range(len(vehicles)) with i not in used_indices.
UnusedIndices(n, used) == {i \in 0..(n - 1) : i \notin used}

\* One iteration of the while loop: the for loop appends the first unused
\* index and breaks; when every index is used it appends nothing and the
\* while loop goes round again (the model follows it for TOP_N + 1 rounds).
RankFillStep ==
    /\ rk.pc = "fill"
    /\ FillNeeded(rk.valid_indices, rk.vehicles)
    /\ LET unused == UnusedIndices(Len(rk.vehicles), rk.used_indices)
       IN  IF unused = {}
             THEN /\ rk.iterations <= TOP_N
                  /\ rk' = [rk EXCEPT !.iterations = rk.iterations + 1]
             ELSE LET i == FirstUnused(unused)
                  IN  rk' = [rk EXCEPT !.valid_indices = Append(rk.valid_indices, i),
                                       !.used_indices = rk.used_indices \cup {i},
                                       !.iterations = rk.iterations + 1]
    /\ UNCHANGED <<fetchVars, ub, pd>>

\* return [vehicles[i] for i in valid_indices[:10]]
RankReturn ==
    /\ rk.pc = "fill"
    /\ ~FillNeeded(rk.valid_indices, rk.vehicles)
    /\ rk' = [rk EXCEPT !.pc = "done", !.result = Pick(rk.vehicles, rk.valid_indices)]
    /\ UNCHANGED <<fetchVars, ub, pd>>

FetchIdle ==
    /\ pc = "idle"
    /\ filters = [make |-> "", min_year |-> None, max_year |-> None]
    /\ max_pages = 0
    /\ page = 0
    /\ vehicle_links = <<>>
    /\ stage1_errors = <<>>
    /\ cards = <<>>
    /\ ci = 0
    /\ s2i = 0
    /\ results = <<>>
    /\ returned = <<>>
    /\ raised = "none"
    /\ faults = 0
    /\ trace = <<>>
    /\ limit = 0

InitRank ==
    /\ FetchIdle
    /\ \E n \in 0..MaxVehicles :
        rk = [RankIdle EXCEPT !.pc = "start", !.vehicles = Vehicles(n)]
    /\ ub = UrlIdle
    /\ pd = ParseIdle

NextRank ==
    \/ RankEmpty
    \/ RankFew
    \/ RankNoClient
    \/ RankCallFails
    \/ RankAnswer
    \/ RankFilterRaises
    \/ RankFilter
    \/ RankFillStep
    \/ RankReturn

SpecRank == InitRank /\ [][NextRank]_vars

\* The call runs on: a step that can be taken is taken.
SpecRankFair == SpecRank /\ WF_vars(NextRank)

\* ======================================================================
\* scraper.py: _slug, _make_search_url, get_search_url
\* views.py:   the conversion of the form fields in _process_post
\* ======================================================================
\* A text is a sequence of characters; TextV(s) is a str value.
TextV(s) == [t |-> "text", v |-> s]

\* The characters of the make, model and location values of the model.
Chars == {"T", "o", " ", "\t"}
Whitespace == {" ", "\t", "\n"}
Texts == UNION {[1..n -> Chars] : n \in 0..MaxTextLen}

\* str.lower() on the characters of the model.
Lower(c) == IF c = "T" THEN "t" ELSE c

\* str.strip(): the text without its leading and trailing characters of cs.
RECURSIVE LStrip(_, _)
LStrip(s, cs) == IF s # <<>> /\ Head(s) \in cs THEN LStrip(Tail(s), cs) ELSE s

RECURSIVE RStrip(_, _)
RStrip(s, cs) ==
    IF s # <<>> /\ s[Len(s)] \in cs THEN RStrip(SubSeq(s, 1, Len(s) - 1), cs) ELSE s

Strip(s, cs) == RStrip(LStrip(s, cs), cs)

\* str.replace(a, b) for a single character a and a text b.
RECURSIVE Replace(_, _, _)
Replace(s, a, b) ==
    IF s = <<>> THEN <<>>
    ELSE (IF Head(s) = a THEN b ELSE <<Head(s)>>) \o Replace(Tail(s), a, b)

\* _slug: None for an absent, empty or whitespace-only value, else the
\* stripped, lower-cased value with every space replaced by a hyphen.
Slug(x) ==
    IF x.t # "text" \/ Strip(x.v, Whitespace) = <<>>
      THEN None
      ELSE LET st == Strip(x.v, Whitespace)
           IN  TextV(Replace([i \in DOMAIN st |-> Lower(st[i])], " ", <<"-">>))

\* The decimal digits of a natural number, as f'{n}' writes them.
DigitChar(d) == <<"0", "1", "2", "3", "4", "5", "6", "7", "8", "9">>[d + 1]

RECURSIVE Digits(_)
Digits(n) == IF n < 10 THEN <<DigitChar(n)>> ELSE Digits(n \div 10) \o <<DigitChar(n % 10)>>

\* Truth value of a make, model or location argument: a non-empty str.
Truthy(x) == x.t = "text" /\ x.v # <<>>

\* "b is not None and b > 0" and "b is not None and b >= 0" for an integer b.
Positive(b) == b.t = "int" /\ b.v > 0
NonNegative(b) == b.t = "int" /\ b.v >= 0

\* The comparison of a bound that is a str with 0 raises TypeError; the tuple
\* given to any() evaluates all four comparisons.
ComparisonRaises(a) ==
    \E b \in {a.min_year, a.max_year, a.min_price, a.max_price} : b.t = "str"

has_filters(a) ==
    \/ Truthy(a.make) \/ Truthy(a.model) \/ Truthy(a.location)
    \/ Positive(a.min_year) \/ Positive(a.max_year)
    \/ NonNegative(a.min_price) \/ Positive(a.max_price)

Slash == <<"/">>
SearchRoot == <<"/", "s", "e", "a", "r", "c", "h">>
CarsPrefix == SearchRoot \o <<"/", "c", "a", "r", "s">>
PriceWord == <<"p", "r", "i", "c", "e">>

\* if make_s: path += '/' + make_s
SlugSegment(x) == IF Slug(x) = None THEN <<>> ELSE Slash \o Slug(x).v

\* Mutant: the year segment is added only when both bounds are positive.
YearWanted_m(a) == Positive(a.min_year) /\ Positive(a.max_year)

YearWanted(a) == Positive(a.min_year) \/ Positive(a.max_year)

PriceWanted(a) == NonNegative(a.min_price) \/ Positive(a.max_price)

YearSegment(a, today) ==
    IF YearWanted(a)
      THEN LET year_min == IF Positive(a.min_year) THEN a.min_year.v ELSE DEFAULT_MIN_YEAR
               year_max == IF Positive(a.max_year) THEN a.max_year.v ELSE today
           IN  Slash \o Digits(year_min) \o <<"-">> \o Digits(year_max)
      ELSE <<>>

PriceSegment(a) ==
    IF PriceWanted(a)
      THEN LET price_min == IF NonNegative(a.min_price) THEN a.min_price.v ELSE 0
               price_max == IF Positive(a.max_price) THEN a.max_price.v
                                                     ELSE DEFAULT_MAX_PRICE
           IN  Slash \o PriceWord \o <<"-">> \o Digits(price_min) \o <<"-">>
                     \o Digits(price_max)
      ELSE <<>>

\* Mutant: the segments are appended in the order model, make, ...
FilterPath_m(a, today) ==
    CarsPrefix \o SlugSegment(a.model) \o SlugSegment(a.make) \o SlugSegment(a.location)
               \o YearSegment(a, today) \o PriceSegment(a)

FilterPath(a, today) ==
    CarsPrefix \o SlugSegment(a.make) \o SlugSegment(a.model) \o SlugSegment(a.location)
               \o YearSegment(a, today) \o PriceSegment(a)

\* urljoin(BASE_URL, rel) for the paths built here: the base has no path, so
\* the result's path is rel below the root.
UrlJoin(rel) == Slash \o LStrip(rel, {"/"})

\* Mutant: the page parameter is appended for every page.
PageQuery_m(p) == p

\* if page > 1: url += f'?page={page}'   (0 stands for no query)
PageQuery(p) == IF p > 1 THEN p ELSE 0

\* A URL of the site: its path and the value of its page parameter.
Url(path, q) == [path |-> path, page |-> q]

\* The value _make_search_url returns when it does not raise.
MakeSearchUrl(a, p, today) ==
    IF ~has_filters(a)
      THEN Url(UrlJoin(SearchRoot), PageQuery(p))
      ELSE Url(UrlJoin(Strip(FilterPath(a, today), {"/"})), PageQuery(p))

\* ------------------------------------------------------- views.py: _int
\* int(val) for a str: an optional sign and at least one digit; anything
\* else raises ValueError.
IsDigit(c) == \E d \in 0..9 : c = DigitChar(d)
DigitValue(c) == CHOOSE d \in 0..9 : c = DigitChar(d)

RECURSIVE Number(_)
Number(s) == IF s = <<>> THEN 0 ELSE 10 * Number(SubSeq(s, 1, Len(s) - 1)) + DigitValue(s[Len(s)])

Unsigned(s) == IF s # <<>> /\ Head(s) \in {"-", "+"} THEN Tail(s) ELSE s

IntParses(s) == Unsigned(s) # <<>> /\ \A i \in DOMAIN Unsigned(s) : IsDigit(Unsigned(s)[i])

IntOfText(s) == IF s # <<>> /\ Head(s) = "-" THEN 0 - Number(Unsigned(s)) ELSE Number(Unsigned(s))

\* _int of _process_post: strip, drop commas, int(); None for an absent or
\* empty field and for a ValueError.
\* (int() itself ignores whitespace around the number.)
FormInt(x) ==
    LET val == Replace(Strip(IF x.t = "text" THEN x.v ELSE <<>>, Whitespace), ",", <<>>)
        num == Strip(val, Whitespace)
    IN  IF val # <<>> /\ IntParses(num) THEN IntV(IntOfText(num)) ELSE None

\* (request.POST.get(...) or '').strip() or None
FormText(x) ==
    LET val == Strip(IF x.t = "text" THEN x.v ELSE <<>>, Whitespace)
    IN  IF val = <<>> THEN None ELSE TextV(val)

\* _process_post: the arguments the view computes from the POST fields.
FormArgs(f) ==
    [make |-> FormText(f.make), model |-> FormText(f.model),
     location |-> FormText(f.location),
     min_year |-> FormInt(f.min_year), max_year |-> FormInt(f.max_year),
     min_price |-> FormInt(f.min_price), max_price |-> FormInt(f.max_price)]

\* ------------------------------------------------------------ the inputs
\* Arguments of a direct call: make runs over every text of the bounded
\* length, the other fields over samples; a bound is None, an integer or a
\* str (StrV).
DirectArgs ==
    [make : {None} \cup {TextV(s) : s \in Texts},
     model : {None, TextV(<<"o">>)},
     location : {None, TextV(<<" ">>), TextV(<<"T", " ", "o", " ">>)},
     min_year : {None, IntV(0), IntV(2015), StrV},
     max_year : {None, IntV(2020)},
     min_price : {None, IntV(0 - 1), IntV(0), IntV(1000000)},
     max_price : {None, IntV(0), IntV(3000000), StrV}]

\* POST fields: absent (None) or a text.
FormFields ==
    [make : {None, TextV(<<" ", "T", "o", " ">>), TextV(<<"\t">>)},
     model : {None},
     location : {None},
     min_year : {None, TextV(<<>>), TextV(<<" ">>), TextV(<<"2", "0", "1", "5">>),
                 TextV(<<" ", "2", ",", "0", "1", "5">>), TextV(<<"a", "b", "c">>),
                 TextV(<<"-", "1">>), TextV(<<"2", "0", "x">>), TextV(<<"0">>)},
     max_year : {None, TextV(<<"2", "0", "2", "0">>)},
     min_price : {TextV(<<>>), TextV(<<"a", "b", "c">>), TextV(<<"1", ",", "0", "0", "0">>),
                  TextV(<<"0">>)},
     max_price : {None, TextV(<<"x">>)}]

NoForm ==
    [make |-> None, model |-> None, location |-> None, min_year |-> None,
     max_year |-> None, min_price |-> None, max_price |-> None]

NoUrl == Url(<<>>, 0)

\* ------------------------------------------------------------ the actions
\* _process_post, lines 67-80: the form fields become the arguments.
ProcessPost ==
    /\ ub.pc = "form"
    /\ ub' = [ub EXCEPT !.pc = "args", !.args = FormArgs(ub.form)]
    /\ UNCHANGED <<fetchVars, rk, pd>>

\* _make_search_url(..., page) returns a URL.
MakeSearchUrlReturns ==
    /\ ub.pc = "args"
    /\ ~ComparisonRaises(ub.args)
    /\ \E p \in 1..MaxPages :
        ub' = [ub EXCEPT !.pc = "built", !.fn = "_make_search_url", !.page = p,
                         !.url = MakeSearchUrl(ub.args, p, CurrentYear)]
    /\ UNCHANGED <<fetchVars, rk, pd>>

\* _make_search_url: an exception inside the try block leaves the function
\* as RuntimeError.
MakeSearchUrlRaisesError ==
    /\ ub.pc = "args"
    /\ ComparisonRaises(ub.args)
    /\ \E p \in 1..MaxPages :
        ub' = [ub EXCEPT !.pc = "raised", !.fn = "_make_search_url", !.page = p,
                         !.raised = "RuntimeError: Failed to build search URL"]
    /\ UNCHANGED <<fetchVars, rk, pd>>

\* get_search_url: the URL of page 1.
GetSearchUrlReturns ==
    /\ ub.pc = "args"
    /\ ~ComparisonRaises(ub.args)
    /\ ub' = [ub EXCEPT !.pc = "built", !.fn = "get_search_url", !.page = 1,
                        !.url = MakeSearchUrl(ub.args, 1, CurrentYear)]
    /\ UNCHANGED <<fetchVars, rk, pd>>

\* get_search_url: when _make_search_url raises, f'{BASE_URL}/search'.
GetSearchUrlFallsBack ==
    /\ ub.pc = "args"
    /\ ComparisonRaises(ub.args)
    /\ ub' = [ub EXCEPT !.pc = "built", !.fn = "get_search_url", !.page = 1,
                        !.url = Url(SearchRoot, 0)]
    /\ UNCHANGED <<fetchVars, rk, pd>>

InitUrl ==
    /\ FetchIdle
    /\ rk = RankIdle
    /\ pd = ParseIdle
    /\ \/ \E a \in DirectArgs :
            ub = [pc |-> "args", entry |-> "direct", form |-> NoForm, args |-> a,
                  fn |-> "none", page |-> 0, url |-> NoUrl, raised |-> "none"]
       \/ \E f \in FormFields :
            ub = [pc |-> "form", entry |-> "form", form |-> f, args |-> NoForm,
                  fn |-> "none", page |-> 0, url |-> NoUrl, raised |-> "none"]

NextUrl ==
    \/ ProcessPost
    \/ MakeSearchUrlReturns
    \/ MakeSearchUrlRaisesError
    \/ GetSearchUrlReturns
    \/ GetSearchUrlFallsBack

SpecUrl == InitUrl /\ [][NextUrl]_vars

\* ======================================================================
\* scraper.py: _stage2_parse_detail
\* ======================================================================
\* The dict the function starts from: only url is set.
NewVehicle(url) ==
    [url |-> url, name |-> <<>>, price |-> None, mileage |-> None, year |-> None,
     description |-> <<>>, raw_text |-> <<>>, make |-> <<>>, model |-> <<>>,
     gear |-> <<>>, fuel_type |-> <<>>, options |-> <<>>, engine_cc |-> <<>>,
     details |-> <<>>, contact |-> <<>>]

\* A row of the table: the label of p.moreh, and the cell next to it ("td"
\* with its text, "none" when there is no such cell, "raises" when reading
\* the row raises).
Row(label, cell, text) == [label |-> label, cell |-> cell, text |-> text]

\* The parsed page: soup is None, or a page with or without an h1 and with
\* or without table.moret.
NoSoup == [present |-> FALSE, h1 |-> FALSE, title |-> <<>>, table |-> FALSE, rows |-> <<>>]
Soup(h1, title, table, rows) ==
    [present |-> TRUE, h1 |-> h1, title |-> title, table |-> table, rows |-> rows]

SampleRows ==
    {Row("Price", "none", <<>>), Row("Price", "raises", <<>>)}
      \cup {Row("Price", "td", v) : v \in {<<>>, <<",">>, <<"a", "b", "c">>, <<"0">>, <<"R", "s", ".", " ", "4", ",", "5", "0", "0", ",", "0", "0", "0">>}}
      \cup {Row("Mileage (km)", "td", v) : v \in {<<"-">>, <<" ", "-", " ">>, <<"0">>, <<"1", "2", ",", "0", "0", "0", " ", "k", "m">>, <<"n", "/", "a">>}}
      \cup {Row("YOM", "td", v) : v \in {<<"2", "0", "1", "5">>, <<"Y", " ", "2", "0">>}}
      \cup {Row("Contact", "td", v) : v \in {<<"0", "7">>}}
      \cup {Row("Make", "td", v) : v \in {<<"T", "o">>}}
      \cup {Row("Model", "td", v) : v \in {<<"A", "x">>}}
      \cup {Row("Details", "td", v) : v \in {<<"d">>}}
      \cup {Row("Options", "td", v) : v \in {<<"o">>}}
      \cup {Row("Gear", "td", v) : v \in {<<"g">>}}
      \cup {Row("Fuel Type", "td", v) : v \in {<<"f">>}}
      \cup {Row("Engine (cc)", "td", v) : v \in {<<"1", "5">>}}
      \cup {Row("Colour", "td", v) : v \in {<<"r", "e", "d">>}}
      \cup {Row("", "td", v) : v \in {<<"x">>}}

Tables == UNION {[1..n -> SampleRows] : n \in 0..MaxRows}

Soups ==
    {NoSoup, Soup(FALSE, <<>>, FALSE, <<>>), Soup(TRUE, <<" ", "C", "a", "r", " ">>, FALSE, <<>>)}
      \cup {Soup(TRUE, <<" ", "C", "a", "r", " ">>, TRUE, rows) : rows \in Tables}
      \cup {Soup(FALSE, <<>>, TRUE, rows) : rows \in Tables}

\* s[:n]
Prefix(s, n) == SubSeq(s, 1, Min(Len(s), n))

\* Mutant: the title is not read.
TitleOf_m(soup) == <<>>

\* (h1.get_text(strip=True) or '')[:200], '' when there is no h1.
TitleOf(soup) ==
    IF soup.h1 THEN Prefix(Strip(soup.title, Whitespace), NAME_MAX) ELSE <<>>

\* re.sub(r'[^\d]', '', value)
DigitsOf(value) == SelectSeq(value, IsDigit)

\* re.search(r'[\d,]+', value) and re.search(r'\d+', value)
HasDigitOrComma(value) == \E i \in DOMAIN value : IsDigit(value[i]) \/ value[i] = ","
HasDigit(value) == \E i \in DOMAIN value : IsDigit(value[i])

\* int(text) of a text of digits: ValueError for the empty text.
IntRaisesValueError(digits) == digits = <<>>

\* Mutant: the empty text of digits converts to 0.
PriceAfter_m(old, value) ==
    IF value # <<>> /\ HasDigitOrComma(value)
      THEN IntV(Number(DigitsOf(value)))
      ELSE old

\* The Price branch: the new value of vehicle['price'].
PriceAfter(old, value) ==
    IF value # <<>> /\ HasDigitOrComma(value) /\ ~IntRaisesValueError(DigitsOf(value))
      THEN IntV(Number(DigitsOf(value)))
      ELSE old

\* The Mileage (km) branch: the new value of vehicle['mileage'].
MileageAfter(old, value) ==
    IF value # <<>> /\ value # <<"-">> /\ HasDigit(value)
         /\ ~IntRaisesValueError(DigitsOf(value))
      THEN IntV(Number(DigitsOf(value)))
      ELSE old

\* The YOM branch: re.search(r'(\d{4})', value), the first run of 4 digits.
FourDigitsAt(value, i) == i + 3 <= Len(value) /\ \A j \in i..(i + 3) : IsDigit(value[j])
YearAfter(old, value) ==
    IF \E i \in DOMAIN value : FourDigitsAt(value, i)
      THEN LET i == CHOOSE k \in DOMAIN value :
                        FourDigitsAt(value, k) /\ \A j \in 1..(k - 1) : ~FourDigitsAt(value, j)
           IN  IntV(Number(SubSeq(value, i, i + 3)))
      ELSE old

\* One pass of the loop over the labels: the dict after the row.
ApplyRow(v, row) ==
    LET value == Strip(row.text, Whitespace)
        label == row.label
    IN  IF row.cell # "td" \/ label = "" THEN v
        ELSE CASE label = "Contact" -> [v EXCEPT !.contact = value]
               [] label = "Price" -> [v EXCEPT !.price = PriceAfter(v.price, value)]
               [] label = "Make" -> [v EXCEPT !.make = value]
               [] label = "Model" -> [v EXCEPT !.model = value]
               [] label = "YOM" -> [v EXCEPT !.year = YearAfter(v.year, value)]
               [] label = "Mileage (km)" ->
                      [v EXCEPT !.mileage = MileageAfter(v.mileage, value)]
               [] label = "Gear" -> [v EXCEPT !.gear = value]
               [] label = "Fuel Type" -> [v EXCEPT !.fuel_type = value]
               [] label = "Options" -> [v EXCEPT !.options = Prefix(value, OPTIONS_MAX)]
               [] label = "Engine (cc)" ->
                      [v EXCEPT !.engine_cc = Strip(value, Whitespace)]
               [] label = "Details" -> [v EXCEPT !.details = Prefix(value, DETAILS_MAX)]
               [] OTHER -> v

\* ' '.join(parts)
RECURSIVE JoinSpace(_)
JoinSpace(parts) ==
    IF parts = <<>> THEN <<>>
    ELSE IF Len(parts) = 1 THEN parts[1]
    ELSE parts[1] \o <<" ">> \o JoinSpace(Tail(parts))

\* Truth value of vehicle.get('price') and vehicle.get('mileage'): None and
\* 0 are false.
TruthyInt(x) == x # None /\ x.v # 0

NonEmpty(s) == s # <<>>

\* The parts joined into raw_text.
RawTextParts(v) ==
    SelectSeq(<<v.name, v.make, v.model, v.contact>>, NonEmpty)
      \o (IF TruthyInt(v.price) THEN <<<<"R", "s", ".", " ">> \o Digits(v.price.v)>> ELSE <<>>)
      \o (IF TruthyInt(v.mileage) THEN <<Digits(v.mileage.v) \o <<" ", "k", "m">>>> ELSE <<>>)

\* ------------------------------------------------------------ the actions
\* if not soup: return vehicle
ParseAbsent ==
    /\ pd.pc = "start"
    /\ ~pd.soup.present
    /\ pd' = [pd EXCEPT !.pc = "returned"]
    /\ UNCHANGED <<fetchVars, rk, ub>>

\* The first try block: the title from h1.
ParseTitle ==
    /\ pd.pc = "start"
    /\ pd.soup.present
    /\ pd' = [pd EXCEPT !.pc = "table", !.vehicle.name = TitleOf(pd.soup)]
    /\ UNCHANGED <<fetchVars, rk, ub>>

\* if not table: return vehicle
ParseNoTable ==
    /\ pd.pc = "table"
    /\ ~pd.soup.table
    /\ pd' = [pd EXCEPT !.pc = "returned"]
    /\ UNCHANGED <<fetchVars, rk, ub>>

\* One iteration of the loop over the labels; an exception inside it is
\* caught and the loop goes on.
ParseRow ==
    /\ pd.pc = "table"
    /\ pd.soup.table
    /\ pd.i <= Len(pd.soup.rows)
    /\ pd' = [pd EXCEPT !.i = pd.i + 1,
                        !.vehicle = ApplyRow(pd.vehicle, pd.soup.rows[pd.i])]
    /\ UNCHANGED <<fetchVars, rk, ub>>

\* After the loop: description, raw_text, return.
ParseFinish ==
    /\ pd.pc = "table"
    /\ pd.soup.table
    /\ pd.i > Len(pd.soup.rows)
    /\ LET v == [pd.vehicle EXCEPT !.description = Prefix(pd.vehicle.details, DESCRIPTION_MAX)]
       IN  pd' = [pd EXCEPT !.pc = "returned",
                            !.vehicle = [v EXCEPT !.raw_text = JoinSpace(RawTextParts(v))]]
    /\ UNCHANGED <<fetchVars, rk, ub>>

InitParse ==
    /\ FetchIdle
    /\ rk = RankIdle
    /\ ub = UrlIdle
    /\ \E s \in Soups :
        pd = [pc |-> "start", soup |-> s, i |-> 1, vehicle |-> NewVehicle("u")]

NextParse ==
    \/ ParseAbsent
    \/ ParseTitle
    \/ ParseNoTable
    \/ ParseRow
    \/ ParseFinish

SpecParse == InitParse /\ [][NextParse]_vars

\* ======================================================================
\* scraper.py: _stage2_collect_vehicles called on its own
\* ======================================================================
\* An entry of the list: a stub with its url, or an entry without a url.
EntryKinds == {"url", "no_url"}
Entry(kind, i) == IF kind = "url" THEN Stub(1, i) ELSE [url |-> <<>>, name |-> "title"]
StubLists ==
    UNION {{[i \in 1..n |-> Entry(ks[i], i)] : ks \in [1..n -> EntryKinds]} : n \in 0..MaxStubs}

\* if not vehicle_links: return []
CollectEmpty ==
    /\ pc = "collect"
    /\ NoStubs(vehicle_links)
    /\ pc' = "returned"
    /\ returned' = <<>>
    /\ UNCHANGED <<filters, max_pages, page, vehicle_links, stage1_errors, cards, ci,
                   s2i, results, raised, faults, trace, limit, rk, ub, pd>>

\* results = []; the for loop begins.
CollectBegin ==
    /\ pc = "collect"
    /\ ~NoStubs(vehicle_links)
    /\ pc' = "stage2"
    /\ s2i' = 0
    /\ results' = <<>>
    /\ UNCHANGED <<filters, max_pages, page, vehicle_links, stage1_errors, cards, ci,
                   returned, raised, faults, trace, limit, rk, ub, pd>>

InitCollect ==
    /\ pc = "collect"
    /\ filters = [make |-> "", min_year |-> None, max_year |-> None]
    /\ max_pages = 0
    /\ page = 0
    /\ vehicle_links \in StubLists
    /\ stage1_errors = <<>>
    /\ cards = <<>>
    /\ ci = 0
    /\ s2i = 0
    /\ results = <<>>
    /\ returned = <<>>
    /\ raised = "none"
    /\ faults = 0
    /\ trace = <<>>
    /\ limit \in 0..(MaxStubs + 1)
    /\ rk = RankIdle
    /\ ub = UrlIdle
    /\ pd = ParseIdle

NextCollect ==
    \/ CollectEmpty
    \/ CollectBegin
    \/ Stage2Step
    \/ Stage2Done

SpecCollect == InitCollect /\ [][NextCollect]_vars

\* ======================================================================
\* Properties of fetch_listings (checked under Spec)
\* ======================================================================
IsSearch(e) == e.ev = "search"
IsDetail(e) == e.ev = "detail"
DetailReqs == SelectSeq(trace, IsDetail)
AfterStage1 == pc \in {"links_check", "stage2", "returned"}
RaisedAtWarmUp == raised \in {WarmUpError(o) : o \in WarmUpExceptions}

\* C1: a 403 response to a search-page request is the last thing the run
\* does: the error is raised to the caller, no later search page, no detail
\* page is requested and nothing is returned, also when earlier pages gave stubs.
C1_Abort403 ==
    \A i \in DOMAIN trace :
        (IsSearch(trace[i]) /\ trace[i].out = "http_403") =>
            /\ i = Len(trace)
            /\ pc = "raised"
            /\ raised = "RuntimeError: Access denied (403)"
            /\ DetailReqs = <<>>
            /\ results = <<>> /\ returned = <<>>

C1_Witness ==
    /\ pc = "raised"
    /\ Len(vehicle_links) > 0
    /\ trace[Len(trace)].out = "http_403"
    /\ trace[Len(trace)].a = 2

\* C2 (as claimed): a run that got past the warm-up raises in Stage 1 only
\* for a 403 response; every other per-page failure is recorded and paging
\* continues.
C2_OnlyForbiddenAborts ==
    (pc = "raised" /\ ~RaisedAtWarmUp) =>
        /\ IsSearch(trace[Len(trace)])
        /\ trace[Len(trace)].out = "http_403"

\* C3 (as claimed): the returned list holds no record for a stub whose detail
\* page could not be fetched.
C3_FailedStubsSkipped ==
    pc = "returned" =>
        \A k \in DOMAIN returned : \A i \in DOMAIN trace :
            (IsDetail(trace[i]) /\ <<trace[i].a, trace[i].b>> = returned[k].url)
                => trace[i].out # "none"

\* Stubs are collected page by page and card by card: no url comes twice.
UrlBefore(u, v) == u[1] < v[1] \/ (u[1] = v[1] /\ u[2] < v[2])

\* C4: Stage 2 requests the detail page of every stub exactly once, in stub
\* order, whatever failed before, and the run then returns without raising.
C4_Stage2NeverAborts ==
    LET det == DetailReqs
    IN  /\ Len(det) <= Len(vehicle_links)
        /\ \A i \in DOMAIN det : <<det[i].a, det[i].b>> = vehicle_links[i].url
        /\ \A i \in 1..(Len(vehicle_links) - 1) :
               UrlBefore(vehicle_links[i].url, vehicle_links[i + 1].url)
        /\ pc = "stage2" => Len(det) = s2i
        /\ (pc = "returned" /\ vehicle_links # <<>>) => Len(det) = Len(vehicle_links)
        /\ (pc = "stage2" \/ det # <<>>) => raised = "none" /\ pc \in {"stage2", "returned"}

C4_Witness ==
    /\ pc = "returned"
    /\ Len(vehicle_links) > 2
    /\ DetailReqs[1].out = "none"
    /\ DetailReqs[Len(DetailReqs)].out = "full"

\* C5: when Stage 1 ends without a stub, the run returns the empty list,
\* raises nothing, never enters Stage 2 and requests no detail page.
C5_NoStubsReturnsEmpty ==
    (AfterStage1 /\ vehicle_links = <<>>) =>
        /\ pc \in {"links_check", "returned"}
        /\ raised = "none"
        /\ DetailReqs = <<>>
        /\ pc = "returned" => returned = <<>>

C5_Witness ==
    /\ pc = "returned"
    /\ vehicle_links = <<>>
    /\ Len(trace) = 2
    /\ trace[2].out = "ok_no_cards"

\* C6: the accumulator never holds more than MAX_RESULTS stubs, no search
\* page is requested while it holds MAX_RESULTS, and at most MAX_RESULTS
\* records are returned.
C6_CapRespected ==
    /\ Len(vehicle_links) <= MAX_RESULTS
    /\ Len(results) <= MAX_RESULTS
    /\ Len(returned) <= MAX_RESULTS
    /\ \A i \in DOMAIN trace : IsSearch(trace[i]) => trace[i].b < MAX_RESULTS

C6_Witness ==
    /\ pc = "cards"
    /\ Len(vehicle_links) = MAX_RESULTS
    /\ ci <= Len(cards)
    /\ page < max_pages

\* C7: a fetched page k without cards ends the paging as end of results:
\* no page after k is requested, nothing is raised or recorded as an error for
\* k, and the stubs of the earlier pages are kept and all go through Stage 2.
C7_NoCardsEndsPaging ==
    \A i \in DOMAIN trace :
        (IsSearch(trace[i]) /\ trace[i].out = "ok_no_cards") =>
            /\ \A j \in DOMAIN trace : IsSearch(trace[j]) => j <= i /\ trace[j].a <= trace[i].a
            /\ raised = "none"
            /\ AfterStage1
            /\ Len(vehicle_links) = trace[i].b
            /\ \A e \in DOMAIN stage1_errors : stage1_errors[e].page # trace[i].a
            /\ pc = "returned" => Len(DetailReqs) = trace[i].b

C7_Witness ==
    /\ pc = "returned"
    /\ max_pages = 3
    /\ Len(returned) > 0
    /\ \E i \in DOMAIN trace :
           IsSearch(trace[i]) /\ trace[i].out = "ok_no_cards" /\ trace[i].a = 2

\* C8 (as claimed): the warm-up aborts the fetch exactly when it fails by a
\* timeout or a connection error, and then nothing else is requested.
C8_OnlyConnectivityAborts ==
    trace # <<>> =>
        /\ RaisedAtWarmUp <=> trace[1].out \in {"timeout", "connection_error"}
        /\ RaisedAtWarmUp => Len(trace) = 1

\* C8 (amended): the warm-up aborts the fetch exactly when the request raises
\* an exception, of any kind, and then nothing else is requested; a warm-up
\* that gives a response, whatever its status, lets Stage 1 paging start.
C8_EveryExceptionAborts ==
    trace # <<>> =>
        /\ trace[1].ev = "home"
        /\ trace[1].out \in WarmUpExceptions =>
               /\ pc = "raised"
               /\ raised = WarmUpError(trace[1].out)
               /\ Len(trace) = 1
        /\ trace[1].out \in WarmUpResponses =>
               /\ ~RaisedAtWarmUp
               /\ pc # "warmup"
               /\ Len(trace) = 1 => pc \in {"page_loop", "raised"} /\ page = 1

C8_Witness ==
    /\ Len(trace) >= 2
    /\ trace[1].out = "http_error_status"
    /\ IsSearch(trace[2])
    /\ trace[2].a = 1
\* ======================================================================
\* Properties of rank_vehicles_with_llm (checked under SpecRank)
\* ======================================================================
\* C9 (as claimed): with more than 10 vehicles the result is exactly 10
\* records of the input, chosen by 10 pairwise distinct input indices,
\* whatever the LLM answers. (Input records differ by position, so two equal
\* records of the result are one input index taken twice.)
C9_TenDistinctRecords ==
    (rk.pc = "done" /\ Len(rk.vehicles) > TOP_N) =>
        /\ Len(rk.result) = TOP_N
        /\ \A i \in DOMAIN rk.result :
               \E k \in 0..(Len(rk.vehicles) - 1) : rk.result[i] = At(rk.vehicles, k)
        /\ \A i, j \in DOMAIN rk.result : rk.result[i] = rk.result[j] => i = j

\* C10: with 10 or fewer vehicles (also none) the result is the input list,
\* in its order, and no request to the LLM is made.
C10_FewReturnedUnchanged ==
    /\ (rk.pc = "done" /\ Len(rk.vehicles) <= TOP_N) =>
           rk.result = rk.vehicles /\ rk.llm_calls = 0
    /\ rk.llm_calls > 0 => Len(rk.vehicles) > TOP_N

C10_Witness == rk.pc = "done" /\ Len(rk.vehicles) = TOP_N /\ Len(rk.result) = TOP_N

\* C11: with more than 10 vehicles, every failure of the ranking (no client,
\* request error, answer that is not JSON or not an object, an index int()
\* cannot convert) gives the first 10 input records in input order; none
\* leaves the function as an exception.
C11_FailureFallsBack ==
    /\ rk.pc # "raised"
    /\ (rk.failure # "none") =>
           /\ rk.pc = "done"
           /\ Len(rk.vehicles) > TOP_N
           /\ Len(rk.result) = TOP_N
           /\ \A i \in 1..TOP_N : rk.result[i] = rk.vehicles[i]

C11_Witness ==
    /\ rk.pc = "done"
    /\ rk.failure = "not_an_object"
    /\ Len(rk.vehicles) = MaxVehicles

\* The k-th smallest input index the LLM's valid indices do not use.
NthUnused(used, n, k) ==
    CHOOSE u \in (0..(n - 1)) \ used :
        Cardinality({w \in (0..(n - 1)) \ used : w < u}) = k - 1

\* C12: without a failure, the result is the records of the first 10 valid
\* indices in the LLM's order; when there are k < 10 of them, they are
\* followed by the 10 - k lowest unused input indices in input order.
C12_ValidThenUnused ==
    (rk.pc = "done" /\ rk.failure = "none" /\ Len(rk.vehicles) > TOP_N) =>
        LET n == Len(rk.vehicles)
            v == FilterValid(rk.ranked_indices, n)
            k == Min(Len(v), TOP_N)
            used == {v[i] : i \in 1..k}
        IN  /\ Len(rk.result) = TOP_N
            /\ \A i \in 1..k : rk.result[i] = At(rk.vehicles, v[i])
            /\ \A j \in 1..(TOP_N - k) :
                   rk.result[k + j] = At(rk.vehicles, NthUnused(used, n, j))

C12_Witness ==
    /\ rk.pc = "done"
    /\ rk.failure = "none"
    /\ Len(rk.ranked_indices) = 4
    /\ Len(FilterValid(rk.ranked_indices, Len(rk.vehicles))) = 3
    /\ rk.ranked_indices[2].v = 2

\* ======================================================================
\* Properties of the search URL (checked under SpecUrl)
\* ======================================================================
\* The segments of a path: the texts between its slashes.
RECURSIVE Split(_)
Split(s) ==
    IF \A i \in DOMAIN s : s[i] # "/"
      THEN <<s>>
      ELSE LET i == CHOOSE k \in DOMAIN s : s[k] = "/" /\ \A j \in 1..(k - 1) : s[j] # "/"
           IN  <<SubSeq(s, 1, i - 1)>> \o Split(SubSeq(s, i + 1, Len(s)))

Segments(path) == Tail(Split(path))

Unset(x) == x = None \/ x = TextV(<<>>)
AllUnset(a) ==
    /\ Unset(a.make) /\ Unset(a.model) /\ Unset(a.location)
    /\ a.min_year = None /\ a.max_year = None
    /\ a.min_price = None /\ a.max_price = None

Blank(x) == x.t # "text" \/ \A i \in DOMAIN x.v : x.v[i] \in Whitespace
Opt(present, seg) == IF present THEN <<seg>> ELSE <<>>

\* C13: when every filter is absent or empty, the URL is the root listing
\* path /search, and it carries a page parameter exactly when page > 1 (then
\* the parameter is the page).
C13_UnsetGivesRoot ==
    (ub.pc = "built" /\ AllUnset(ub.args)) =>
        /\ ub.url.path = SearchRoot
        /\ (ub.url.page # 0) <=> (ub.page > 1)
        /\ (ub.page > 1) => ub.url.page = ub.page

C13_Witness ==
    /\ ub.pc = "built"
    /\ AllUnset(ub.args)
    /\ ub.args.make = TextV(<<>>)
    /\ ub.page = 2
    /\ ub.url.page = 2

\* C14: when a filter is set, the segments of the path are search, cars and
\* then, in this order, the slug of make, of model, of location, the year
\* range and the price range, each only if present; a value that is absent,
\* empty or only whitespace gives no segment, and no segment is empty.
C14_SegmentsInOrder ==
    (ub.pc = "built" /\ ~ComparisonRaises(ub.args) /\ has_filters(ub.args)) =>
        LET a == ub.args
            segs == Segments(ub.url.path)
        IN  /\ segs = <<Tail(SearchRoot), <<"c", "a", "r", "s">>>>
                        \o Opt(~Blank(a.make), Slug(a.make).v)
                        \o Opt(~Blank(a.model), Slug(a.model).v)
                        \o Opt(~Blank(a.location), Slug(a.location).v)
                        \o Opt(YearWanted(a), Tail(YearSegment(a, CurrentYear)))
                        \o Opt(PriceWanted(a), Tail(PriceSegment(a)))
            /\ \A i \in DOMAIN segs : segs[i] # <<>>

C14_Witness ==
    /\ ub.pc = "built"
    /\ ub.args.make = TextV(<<"T", "o">>)
    /\ ub.args.model = None
    /\ ub.args.location = TextV(<<" ">>)
    /\ ub.args.min_year = IntV(2015)
    /\ ub.args.max_price = IntV(3000000)
    /\ Len(Segments(ub.url.path)) = 5

IsYearSegment(seg) == seg # <<>> /\ IsDigit(seg[1])
IsPriceSegment(seg) == Len(seg) > 5 /\ SubSeq(seg, 1, 6) = PriceWord \o <<"-">>

\* C15: the path has a year segment exactly when min_year or max_year is
\* positive, and it reads {min_year or 2000}-{max_year or the current year};
\* it has a price segment exactly when min_price >= 0 or max_price > 0, and
\* it reads price-{min_price or 0}-{max_price or 50000000}.
C15_YearAndPriceSegments ==
    (ub.pc = "built" /\ ~ComparisonRaises(ub.args)) =>
        LET a == ub.args
            segs == Segments(ub.url.path)
            years == SelectSeq(segs, IsYearSegment)
            prices == SelectSeq(segs, IsPriceSegment)
            lo == IF a.min_year # None /\ a.min_year.v > 0 THEN a.min_year.v ELSE DEFAULT_MIN_YEAR
            hi == IF a.max_year # None /\ a.max_year.v > 0 THEN a.max_year.v ELSE CurrentYear
            plo == IF a.min_price # None /\ a.min_price.v >= 0 THEN a.min_price.v ELSE 0
            phi == IF a.max_price # None /\ a.max_price.v > 0 THEN a.max_price.v
                                                               ELSE DEFAULT_MAX_PRICE
        IN  /\ IF (a.min_year # None /\ a.min_year.v > 0) \/ (a.max_year # None /\ a.max_year.v > 0)
                 THEN years = <<Digits(lo) \o <<"-">> \o Digits(hi)>>
                 ELSE years = <<>>
            /\ IF (a.min_price # None /\ a.min_price.v >= 0) \/ (a.max_price # None /\ a.max_price.v > 0)
                 THEN prices = <<PriceWord \o <<"-">> \o Digits(plo) \o <<"-">> \o Digits(phi)>>
                 ELSE prices = <<>>

C15_Witness ==
    /\ ub.pc = "built"
    /\ ub.args.min_year = None
    /\ ub.args.max_year = IntV(2020)
    /\ ub.args.min_price = IntV(0)
    /\ ub.args.max_price = None
    /\ Len(SelectSeq(Segments(ub.url.path), IsYearSegment)) = 1
    /\ Len(SelectSeq(Segments(ub.url.path), IsPriceSegment)) = 1

\* A bound that does not parse as an integer: a str argument of a direct
\* call, a form field that _int cannot convert.
MalformedArg(b) == b.t = "str"
MalformedField(x) ==
    /\ x.t = "text"
    /\ Strip(x.v, Whitespace) # <<>>
    /\ FormInt(x) = None

CleanArgs(a) ==
    [a EXCEPT !.min_year = IF MalformedArg(@) THEN None ELSE @,
              !.max_year = IF MalformedArg(@) THEN None ELSE @,
              !.min_price = IF MalformedArg(@) THEN None ELSE @,
              !.max_price = IF MalformedArg(@) THEN None ELSE @]
CleanForm(f) ==
    [f EXCEPT !.min_year = IF MalformedField(@) THEN None ELSE @,
              !.max_year = IF MalformedField(@) THEN None ELSE @,
              !.min_price = IF MalformedField(@) THEN None ELSE @,
              !.max_price = IF MalformedField(@) THEN None ELSE @]

\* C16: building the URL never raises for a bound that does not parse as an
\* integer, and the URL is the one built for the same filters with that
\* bound absent.
C16_MalformedBoundIsUnset ==
    (ub.pc \in {"built", "raised"}) =>
        /\ ub.pc = "built"
        /\ ub.url = MakeSearchUrl(IF ub.entry = "form" THEN FormArgs(CleanForm(ub.form))
                                                       ELSE CleanArgs(ub.args),
                                  ub.page, CurrentYear)

\* ======================================================================
\* Properties of _stage2_parse_detail (checked under SpecParse)
\* ======================================================================
TablePassed == pd.pc = "returned" /\ pd.soup.present /\ pd.soup.table

\* The rows of the table that carry the label and a value cell.
IsPriceRow(r) == r.label = "Price" /\ r.cell = "td"
IsMileageRow(r) == r.label = "Mileage (km)" /\ r.cell = "td"
RowHasDigit(r) == \E i \in DOMAIN r.text : IsDigit(r.text[i])

\* The integer written by the digits of the last row of rs that has a digit,
\* None when no row has one.
LastAmount(rs) ==
    LET ds == SelectSeq(rs, RowHasDigit)
    IN  IF ds = <<>> THEN None
        ELSE IntV(Number(SelectSeq(ds[Len(ds)].text, IsDigit)))

\* C17 as stated: the parser never raises, and when the page is absent or has
\* no table the record returned has only url set; name too is empty.
C17_OnlyUrlWithoutTable ==
    /\ pd.pc # "raised"
    /\ (pd.pc = "returned" /\ (~pd.soup.present \/ ~pd.soup.table)) =>
           pd.vehicle = NewVehicle(pd.vehicle.url)

\* C17 amended: the parser never raises; for an absent page the record has
\* only url set; for a page without the table it has url and the name read
\* from the page's h1 (empty when there is no h1), and every other field is
\* empty or null.
C17_UrlAndTitleWithoutTable ==
    /\ pd.pc # "raised"
    /\ (pd.pc = "returned" /\ ~pd.soup.present) => pd.vehicle = NewVehicle("u")
    /\ (pd.pc = "returned" /\ pd.soup.present /\ ~pd.soup.table) =>
           pd.vehicle = [NewVehicle("u") EXCEPT
                            !.name = IF pd.soup.h1
                                       THEN Prefix(Strip(pd.soup.title, Whitespace), NAME_MAX)
                                       ELSE <<>>]

C17_Witness ==
    /\ pd.pc = "returned"
    /\ pd.soup.present
    /\ pd.soup.h1
    /\ ~pd.soup.table
    /\ pd.vehicle.name = <<"C", "a", "r">>
    /\ pd.vehicle.raw_text = <<>>

\* C18: after the table pass raw_text is the space-joined list of the
\* non-empty name, make, model and contact, then "Rs. {price}" whenever
\* price is not null and "{mileage} km" whenever mileage is not null.
C18_RawTextHasEveryAmount ==
    TablePassed =>
        LET v == pd.vehicle
        IN  v.raw_text =
              JoinSpace(SelectSeq(<<v.name, v.make, v.model, v.contact>>, NonEmpty)
                \o (IF v.price # None
                      THEN <<<<"R", "s", ".", " ">> \o Digits(v.price.v)>> ELSE <<>>)
                \o (IF v.mileage # None
                      THEN <<Digits(v.mileage.v) \o <<" ", "k", "m">>>> ELSE <<>>))

\* C19: after the table pass price is the integer written by the digits of
\* the Price value (of the last Price row that has a digit), and null when
\* no Price value has a digit; the same for mileage and Mileage (km), where
\* the value "-" gives null.
C19_AmountFromDigits ==
    TablePassed =>
        /\ pd.vehicle.price = LastAmount(SelectSeq(pd.soup.rows, IsPriceRow))
        /\ pd.vehicle.mileage = LastAmount(SelectSeq(pd.soup.rows, IsMileageRow))

C19_Witness ==
    /\ TablePassed
    /\ pd.soup.rows = <<Row("Price", "td", <<"R", "s", ".", " ", "4", ",", "5", "0", "0", ",", "0", "0", "0">>), Row("Mileage (km)", "td", <<"-">>)>>
    /\ pd.vehicle.price = IntV(4500000)
    /\ pd.vehicle.mileage = None

\* ======================================================================
\* Properties of the delays of fetch_listings (checked under Spec)
\* ======================================================================
\* C20: every search-page request after the first is directly preceded by
\* the page delay of 1 time unit, whatever the outcome of the request
\* before it.
C20_DelayBeforeEveryLaterPage ==
    \A i \in 2..Len(trace) :
        (IsSearch(trace[i]) /\ trace[i - 1].ev # "home") =>
            trace[i - 1] = Ev("sleep", PAGE_DELAY, 0, "page")

IsPageSleep(e) == e = Ev("sleep", PAGE_DELAY, 0, "page")
IsDetailSleep(e) == e = Ev("sleep", DETAIL_DELAY, 0, "detail")
Stage1Over == pc \in {"links_check", "stage2", "returned", "raised"}

\* C21: once Stage 1 is over, every page delay in the run is directly
\* followed by a search-page request: none comes after the last request,
\* be it that of page max_pages, of the page that filled the accumulator to
\* 20, or of a page without cards.
C21_NoDelayAfterLastPage ==
    Stage1Over =>
        \A i \in 1..Len(trace) :
            IsPageSleep(trace[i]) => (i < Len(trace) /\ IsSearch(trace[i + 1]))

C21_Witness ==
    /\ pc = "links_check"
    /\ Len(vehicle_links) = MAX_RESULTS
    /\ page <= max_pages
    /\ Len(trace) = 4
    /\ IsPageSleep(trace[3])
    /\ IsSearch(trace[4])

\* ======================================================================
\* Properties of _stage2_collect_vehicles (checked under SpecCollect)
\* ======================================================================
\* C22: when the function has returned, every detail request that has a
\* later one is directly followed by the delay of 0.3, and the last detail
\* request is followed by nothing.
C22_DelayBetweenDetailsOnly ==
    (pc = "returned") =>
        \A i \in 1..Len(trace) :
            IsDetail(trace[i]) =>
                IF \E j \in (i + 1)..Len(trace) : IsDetail(trace[j])
                  THEN IsDetailSleep(trace[i + 1])
                  ELSE i = Len(trace)

\* ======================================================================
\* Termination of rank_vehicles_with_llm (checked under SpecRankFair)
\* ======================================================================
\* C23: in the fill loop every iteration has appended one index (the list
\* has its filtered length plus the number of iterations, at most 10 of
\* them), and a call that has reached the loop returns.
C23_FillLoopTerminates ==
    /\ [](rk.pc \in {"fill", "done"} /\ rk.failure = "none" /\ Len(rk.vehicles) > TOP_N =>
            /\ rk.iterations <= TOP_N
            /\ rk.pc = "fill" =>
                   Len(rk.valid_indices)
                     = Len(ValidIndices(rk.ranked_indices, Len(rk.vehicles))) + rk.iterations)
    /\ (rk.pc = "fill") ~> (rk.pc = "done")

C23_Witness ==
    /\ rk.pc = "done"
    /\ rk.failure = "none"
    /\ rk.ranked_indices = <<IntItem(0), IntItem(0)>>
    /\ rk.iterations = TOP_N - 2
    /\ Len(rk.result) = TOP_N
====
